---- MODULE Spec2Model ----
(***************************************************************************)
(* voiceloom: the filesystem-backed job orchestrator (JobManager), the job *)
(* state machine and the content-addressed cache index.                    *)
(*                                                                         *)
(* One job directory per job id holds status.json, request.json,           *)
(* tts_out.wav, timings.json and manifest.json; the cache root holds       *)
(* index.json.  run_job is a background task: it is modelled as a process  *)
(* per job id whose steps are cut at its accesses to state other tasks can *)
(* see (status.json, index.json, the origin job's files).  _transition is  *)
(* also an operation of its own, callable on any job id.                   *)
(***************************************************************************)
EXTENDS Integers, Sequences, FiniteSets, TLC

\* ------------------------------------------------------------ bounds
MaxClock == 1       \* the wall clock (time.time()) advances at most this often

\* ------------------------------------------------------------ values
JobSeq == <<"j1", "j2">>        \* the uuid4().hex values, in the order drawn
JobIds == {JobSeq[i] : i \in DOMAIN JobSeq}
NoJob == "<none>"               \* Python None where a job id is expected
NoError == "<null>"             \* Python None in the status record's error

\* app/domain/states.py: JobState
JobState == {"PENDING", "SYNTHESIZING", "MASTERING", "ALIGNING", "READY", "FAILED"}
TERMINAL_STATES == {"READY", "FAILED"}

_ALLOWED_noFailedWhileSynthesizing(src) ==
    CASE src = "PENDING" -> {"SYNTHESIZING", "FAILED"}
      [] src = "SYNTHESIZING" -> {"MASTERING"}
      [] src = "MASTERING" -> {"ALIGNING", "FAILED"}
      [] src = "ALIGNING" -> {"READY", "FAILED"}
      [] OTHER -> {}

\* states.py _ALLOWED
_ALLOWED(src) ==
    CASE src = "PENDING" -> {"SYNTHESIZING", "FAILED"}
      [] src = "SYNTHESIZING" -> {"MASTERING", "FAILED"}
      [] src = "MASTERING" -> {"ALIGNING", "FAILED"}
      [] src = "ALIGNING" -> {"READY", "FAILED"}
      [] src = "READY" -> {}
      [] src = "FAILED" -> {}
      [] OTHER -> {}

is_terminal(state) == state \in TERMINAL_STATES

can_transition_absorbing_lost(src, dst) ==
    dst \in (_ALLOWED(src) \cup {"FAILED"})

can_transition(src, dst) == dst \in _ALLOWED(src)

\* Python truthiness of the `error` argument: None and "" are both falsy
Truthy(error) == error \notin {NoError, ""}

\* ------------------------------------------------------------ status.json
\* state "<absent>" stands for a status.json that does not exist
NoStatus == [id |-> NoJob, state |-> "<absent>", error |-> NoError,
             createdAt |-> 0, updatedAt |-> 0]

NewStatus(job_id, now) ==
    [id |-> job_id, state |-> "PENDING", error |-> NoError,
     createdAt |-> now, updatedAt |-> now]

\* _transition: how the call ends
TransitionResult(st, dst) ==
    IF st = NoStatus THEN "missing"
    ELSE IF ~can_transition(st.state, dst) THEN "invalid"
    ELSE "ok"

\* _transition: the message of the RuntimeError it raises
TransitionMessage(st, dst) ==
    IF st = NoStatus THEN "job status missing"
    ELSE "Invalid state transition: " \o st.state \o " -> " \o dst

TransitionStatus_rejectWritesState(st, dst, error, now) ==
    IF st = NoStatus THEN st
    ELSE [st EXCEPT !.state = dst,
                    !.error = IF Truthy(error) THEN error ELSE @,
                    !.updatedAt = now]

TransitionStatus_errorNotWritten(st, dst, error, now) ==
    IF st = NoStatus THEN st
    ELSE IF ~can_transition(st.state, dst)
         THEN IF Truthy(error)
              THEN [st EXCEPT !.error = error, !.updatedAt = now]
              ELSE st
    ELSE [st EXCEPT !.state = dst, !.updatedAt = now]

TransitionStatus_rewritesRecord(st, dst, error, now) ==
    IF st = NoStatus THEN st
    ELSE IF ~can_transition(st.state, dst)
         THEN IF Truthy(error)
              THEN [st EXCEPT !.error = error, !.updatedAt = now]
              ELSE st
    ELSE [st EXCEPT !.state = dst,
                    !.error = IF Truthy(error) THEN error ELSE @,
                    !.createdAt = now,
                    !.updatedAt = now]

\* _transition: the status record on disk when the call ends
TransitionStatus(st, dst, error, now) ==
    IF st = NoStatus THEN st
    ELSE IF ~can_transition(st.state, dst)
         THEN IF Truthy(error)
              THEN [st EXCEPT !.error = error, !.updatedAt = now]
              ELSE st
    ELSE [st EXCEPT !.state = dst,
                    !.error = IF Truthy(error) THEN error ELSE @,
                    !.updatedAt = now]

\* ------------------------------------------------------------ requests
\* A script text is kept as what the parser reads in it: whether it has a
\* SCRIPT: header line, and its "[Role] (cue) words" lines in order.  In every
\* script below each line carries a [Role] tag.
Line(role, cue, text) == [role |-> role, cue |-> cue, text |-> text]

ScriptA == [header |-> TRUE, lines |-> <<Line("narrator", "", "hello")>>]
ScriptACue == [header |-> TRUE, lines |-> <<Line("narrator", "softly", "hello")>>]
ScriptB == [header |-> TRUE, lines |-> <<Line("narrator", "", "hel"),
                                         Line("narrator", "pause", ""),
                                         Line("narrator", "", "p")>>]
NoHeader == [header |-> FALSE, lines |-> <<Line("narrator", "", "hello")>>]
NoScript == [header |-> FALSE, lines |-> <<>>]

Scripts == {ScriptA, ScriptACue, ScriptB, NoHeader}
RoleLists == {<<"narrator">>, <<"stranger">>}
Bodies == {b \in [script : Scripts, roles : RoleLists] :
              b.roles = <<"stranger">> => b.script = ScriptA}

NoRequest == [present |-> FALSE, script |-> NoScript, roles |-> <<>>]
RequestOf(body) == [present |-> TRUE, script |-> body.script, roles |-> body.roles]

\* config/voices.yml as loaded by _load_full_registry: role -> voice name
FullRegistry == ("narrator" :> "Kore")
TtsModel == "gemini-2.5-flash-preview-tts"

RolesOf(roles) == {roles[i] : i \in DOMAIN roles}

\* resolve_registry: the message of the error it raises, NoError when it returns
ResolveError(roles) ==
    IF roles = <<>> THEN "no roles provided; Client must send at least one role"
    ELSE IF \E r \in RolesOf(roles) : r \notin DOMAIN FullRegistry
         THEN "missing roles in registry"
    ELSE NoError

\* a list without its repeated elements, first occurrences kept (dict keys)
RECURSIVE Dedupe(_)
Dedupe(roles) ==
    IF roles = <<>> THEN <<>>
    ELSE LET init == Dedupe(SubSeq(roles, 1, Len(roles) - 1))
             last == roles[Len(roles)]
         IN  IF \E i \in DOMAIN init : init[i] = last THEN init
             ELSE Append(init, last)

\* {r: full[r] for r in required_roles}
resolve_registry(roles) ==
    LET keys == Dedupe(roles)
    IN  [i \in DOMAIN keys |-> <<keys[i], FullRegistry[keys[i]]>>]

\* parse_text / _split_sections: a script without a SCRIPT: header is an error
HasScriptSection(script) == script.header

\* parse_text: the ScriptLine of every line of the SCRIPT: block
parse_text(script) == script.lines

\* build_ui_script: "<name> utterance" for every line whose utterance (cues
\* included) is not blank; the display name is the role when no <Character>
UiLine(line) == [name |-> line.role, cue |-> line.cue, text |-> line.text]
Spoken(line) == line.cue # "" \/ line.text # ""
build_ui_script(doc) ==
    LET kept == SelectSeq(doc, Spoken)
    IN  [i \in DOMAIN kept |-> UiLine(kept[i])]

\* A text is the sequence of its pieces: words (or single letters) and the
\* white space between them.
Whitespace == {" ", "\n"}

\* "\n".join(lines)
RECURSIVE JoinLines(_)
JoinLines(lines) ==
    IF lines = <<>> THEN <<>>
    ELSE IF Len(lines) = 1 THEN <<Head(lines)>>
    ELSE <<Head(lines), "\n">> \o JoinLines(Tail(lines))

\* build_alignment_text_from_ui: tags and (cues) removed, blank lines dropped,
\* the rest joined by line breaks
Worded(line) == line.text # ""
build_alignment_text_from_ui(ui_script) ==
    LET kept == SelectSeq(ui_script, Worded)
    IN  JoinLines([i \in DOMAIN kept |-> kept[i].text])

RECURSIVE _normalize_script(_)

\* cache.py _normalize_script: re.sub(r"\s+", "", s), all white space removed
_normalize_script(s) ==
    IF s = <<>> THEN ""
    ELSE IF Head(s) \in Whitespace THEN _normalize_script(Tail(s))
    ELSE Head(s) \o _normalize_script(Tail(s))

\* sorted(): the role names in the order Python's string comparison gives
RoleNames == <<"narrator", "stranger">>

_normalize_registry_unsorted(registry) == registry

\* cache.py _normalize_registry: role -> voice name, sorted by role.  A
\* registry is a dict: its entries <<role, voice name>> in insertion order.
_normalize_registry(registry) ==
    LET Named(r) == \E i \in DOMAIN registry : registry[i][1] = r
        VoiceOf(r) == registry[CHOOSE i \in DOMAIN registry : registry[i][1] = r][2]
        roles == SelectSeq(RoleNames, Named)
    IN  [i \in DOMAIN roles |-> <<roles[i], VoiceOf(roles[i])>>]

\* instructions.py: the text of the instructions file, "" when there is none
TtsInstructions == "Read the script aloud."

\* prepend_tts_instructions: f"{instr}\n{script}", the script alone without
\* instructions
prepend_tts_instructions(script) ==
    IF TtsInstructions = "" THEN <<script>> ELSE <<TtsInstructions, script>>

\* what run_job hands to synthesize_single_pass / synthesize_chunked for a
\* request: the effective script and the resolved registry
SynthInput(body) ==
    [script |-> prepend_tts_instructions(body.script),
     registry |-> resolve_registry(body.roles)]

\* run_job lines 132-136
UiScript(script) == build_ui_script(parse_text(script))
AlignmentView(script) == build_alignment_text_from_ui(UiScript(script))

make_cache_key_noModel(script, registry, model) ==
    [script |-> _normalize_script(script),
     registry |-> _normalize_registry(registry), model |-> ""]

\* make_cache_key, the digest taken as injective: the key is the payload hashed
make_cache_key(script, registry, model) ==
    [script |-> _normalize_script(script),
     registry |-> _normalize_registry(registry), model |-> model]

\* lookup_origin_job on an index (a function from keys to job ids)
lookup_origin_job(idx, k) == IF k \in DOMAIN idx THEN idx[k] ELSE NoJob

\* record_origin_job's idx[key] = {"job_id": job_id}
IndexWith(idx, k, job_id) ==
    [x \in (DOMAIN idx) \cup {k} |-> IF x = k THEN job_id ELSE idx[x]]

EmptyIndex == [x \in {} |-> NoJob]

\* run_job has not computed cache_key yet
NoKey == [script |-> "", registry |-> <<>>, model |-> ""]

\* ------------------------------------------------------------ artifacts
NoManifest == [audioUrl |-> NoJob, timingsUrl |-> NoJob, script |-> <<>>]

ManifestFor_originUrls(job_id, urlJob, ui_script) ==
    [audioUrl |-> urlJob, timingsUrl |-> urlJob, script |-> ui_script]

\* Manifest(audioUrl=f"/v1/tts/jobs/{job_id}/audio", ...): a URL stands for the
\* job id it embeds; urlJob is the job whose artifacts were reused, if any
ManifestFor(job_id, urlJob, ui_script) ==
    [audioUrl |-> job_id, timingsUrl |-> job_id, script |-> ui_script]

\* _link_or_copy(src, dst): dst is left alone when it already exists
LinkOrCopy(src, dst) == IF dst # NoJob THEN dst ELSE src

\* ------------------------------------------------------------ externals
\* What the Synthesizer call can end with: "ok" or an exception's message.
\* An exception raised without arguments (wave's EOFError on a truncated WAV in
\* chunked mode, a bare timeout of the HTTP client) has the empty message.
SynthErrors == {"TTS model returned no inline audio payload.", ""}
AsrErrors == {"transcriber failed"}
LinkError == "link or copy failed"

VARIABLES
    debug,       \* logger.isEnabledFor(logging.DEBUG)
    clock,       \* time.time()
    status,      \* job id -> status.json (NoStatus when the file is absent)
    hist,        \* job id -> the values status.json's state has taken, in order
    request,     \* job id -> request.json
    audio,       \* job id -> tts_out.wav: the job whose synthesis made it
    timings,     \* job id -> timings.json: the job whose alignment made it
    manifest,    \* job id -> manifest.json
    index,       \* cache index.json: cache key -> origin job id
    pc,          \* job id -> where run_job(job id) stands
    key,         \* job id -> run_job's cache_key
    origin,      \* job id -> run_job's origin_job
    snap,        \* job id -> the index record_origin_job loaded
    path,        \* job id -> the branch run_job took at line 145
    outcome,     \* job id -> how run_job(job id) ended
    synthCalls,  \* job id -> Synthesizer calls made for it
    asrCalls,    \* job id -> Transcriber calls made for it
    failure,     \* job id -> the exception run_job caught
    direct,      \* job ids _transition was called on from outside run_job
    lastCall,    \* the latest observed _transition call from outside run_job
    unit         \* a component studied on its own: the arguments and results of
                 \* a pure function, or one file with its writers and readers

vars == <<debug, clock, status, hist, request, audio, timings, manifest, index,
          pc, key, origin, snap, path, outcome, synthCalls, asrCalls, failure,
          direct, lastCall, unit>>

files == <<request, audio, timings, manifest>>
locals == <<key, origin, snap>>
calls == <<synthCalls, asrCalls>>

NoFailure == [message |-> NoError, step |-> "<none>", state |-> "<none>",
              after |-> NoStatus]
NoCall == [job |-> NoJob, dst |-> "<none>", error |-> NoError, result |-> "none",
           pre |-> NoStatus, at |-> 0]

CallRecord(j, dst, error, st) ==
    [job |-> j, dst |-> dst, error |-> error, result |-> TransitionResult(st, dst),
     pre |-> st, at |-> clock]

\* no component is studied on its own
NoUnit == [op |-> "none"]

HistAfter(h, old, new) == IF new.state # old.state THEN Append(h, new.state) ELSE h

\* no job yet: empty job directories and an empty cache index
NoJobsYet ==
    /\ clock = 0
    /\ status = [j \in JobIds |-> NoStatus]
    /\ hist = [j \in JobIds |-> <<>>]
    /\ request = [j \in JobIds |-> NoRequest]
    /\ audio = [j \in JobIds |-> NoJob]
    /\ timings = [j \in JobIds |-> NoJob]
    /\ manifest = [j \in JobIds |-> NoManifest]
    /\ index = EmptyIndex
    /\ pc = [j \in JobIds |-> "idle"]
    /\ key = [j \in JobIds |-> NoKey]
    /\ origin = [j \in JobIds |-> NoJob]
    /\ snap = [j \in JobIds |-> EmptyIndex]
    /\ path = [j \in JobIds |-> "none"]
    /\ outcome = [j \in JobIds |-> "none"]
    /\ synthCalls = [j \in JobIds |-> 0]
    /\ asrCalls = [j \in JobIds |-> 0]
    /\ failure = [j \in JobIds |-> NoFailure]
    /\ direct = {}
    /\ lastCall = NoCall

Init ==
    /\ debug \in BOOLEAN
    /\ NoJobsYet
    /\ unit = NoUnit

\* time.time() moves on
Tick ==
    /\ clock < MaxClock
    /\ clock' = clock + 1
    /\ UNCHANGED <<debug, unit, status, hist, files, index, pc, locals, path, outcome,
                   calls, failure, direct, lastCall>>

\* job ids no call has named yet
FreshIds ==
    {j \in JobIds : /\ status[j] = NoStatus
                    /\ pc[j] = "idle"
                    /\ outcome[j] = "none"
                    /\ j \notin direct}

\* uuid.uuid4().hex: a fresh id; ids are drawn in the order of JobSeq
uuid4 == JobSeq[CHOOSE i \in DOMAIN JobSeq :
                   /\ JobSeq[i] \in FreshIds
                   /\ \A k \in 1..(i - 1) : JobSeq[k] \notin FreshIds]

\* JobManager.create_job(body)
create_job(body) ==
    /\ FreshIds # {}
    /\ LET job_id == uuid4
       IN  /\ request' = [request EXCEPT ![job_id] =
                             IF debug THEN RequestOf(body) ELSE @]
           /\ status' = [status EXCEPT ![job_id] = NewStatus(job_id, clock)]
           /\ hist' = [hist EXCEPT ![job_id] = <<"PENDING">>]
    /\ UNCHANGED <<debug, unit, clock, audio, timings, manifest, index, pc, locals,
                   path, outcome, calls, failure, direct, lastCall>>

\* JobManager._transition(job_id, dst_state, error) called from outside run_job:
\* everything but the record of the call
TransitionCall(job_id, dst, error) ==
    /\ direct' = direct \cup {job_id}
    /\ status' = [status EXCEPT ![job_id] = TransitionStatus(@, dst, error, clock)]
    /\ hist' = [hist EXCEPT ![job_id] =
                   HistAfter(@, status[job_id],
                             TransitionStatus(status[job_id], dst, error, clock))]
    /\ UNCHANGED <<debug, unit, clock, files, index, pc, locals, path, outcome, calls,
                   failure>>

_transition(job_id, dst, error) ==
    /\ TransitionCall(job_id, dst, error)
    /\ UNCHANGED lastCall

\* the same call, its arguments, result and time kept in lastCall
ObservedTransition(job_id, dst, error) ==
    /\ TransitionCall(job_id, dst, error)
    /\ lastCall' = CallRecord(job_id, dst, error, status[job_id])

\* ------------------------------------------------------------ run_job
\* run_job's except handler, entered with message str(e) raised at `step` while
\* status.json holds st: self._transition(job_id, JobState.FAILED, error=str(e)).
\* The handler's own RuntimeError is what run_job raises to its caller.
Handler(job_id, st, message, step) ==
    /\ status' = [status EXCEPT ![job_id] =
                     TransitionStatus(st, "FAILED", message, clock)]
    /\ hist' = [hist EXCEPT ![job_id] =
                   HistAfter(HistAfter(@, status[job_id], st), st,
                             TransitionStatus(st, "FAILED", message, clock))]
    /\ outcome' = [outcome EXCEPT ![job_id] =
                      IF TransitionResult(st, "FAILED") = "ok"
                      THEN "returned" ELSE "raised"]
    /\ failure' = [failure EXCEPT ![job_id] =
                      [message |-> message, step |-> step, state |-> st.state,
                       after |-> TransitionStatus(st, "FAILED", message, clock)]]
    /\ pc' = [pc EXCEPT ![job_id] = "done"]

\* a _transition call of run_job (no error argument): on return run_job goes on
\* at `next` (or returns, when `last`); when it raises the handler runs
Step(job_id, dst, next, last) ==
    LET st0 == status[job_id]
        st1 == TransitionStatus(st0, dst, NoError, clock)
    IN  IF TransitionResult(st0, dst) = "ok"
        THEN /\ status' = [status EXCEPT ![job_id] = st1]
             /\ hist' = [hist EXCEPT ![job_id] = HistAfter(@, st0, st1)]
             /\ pc' = [pc EXCEPT ![job_id] = next]
             /\ outcome' = [outcome EXCEPT ![job_id] = IF last THEN "returned" ELSE @]
             /\ UNCHANGED failure
        ELSE Handler(job_id, st1, TransitionMessage(st0, dst), dst)

\* run_job line 116: self._transition(job_id, JobState.SYNTHESIZING)
RunJobBegin(job_id) ==
    /\ pc[job_id] = "idle"
    /\ outcome[job_id] = "none"
    /\ Step(job_id, "SYNTHESIZING", "prepare", FALSE)
    /\ UNCHANGED <<debug, unit, clock, files, index, locals, path, calls, direct, lastCall>>

\* lines 118-137: the message of the first error raised, NoError when none is
PrepareError(body) ==
    IF ~body.present THEN "'script'"
    ELSE IF ResolveError(body.roles) # NoError THEN ResolveError(body.roles)
    ELSE IF ~HasScriptSection(body.script) THEN "SCRIPT: section is required"
    ELSE NoError

\* lines 118-143: read the request, resolve the registry, parse, compute the
\* cache key and look the origin job up
RunJobPrepare(job_id) ==
    /\ pc[job_id] = "prepare"
    /\ LET body == request[job_id]
       IN  IF PrepareError(body) # NoError
           THEN /\ Handler(job_id, status[job_id], PrepareError(body), "prepare")
                /\ UNCHANGED <<key, origin>>
           ELSE LET k == make_cache_key(AlignmentView(body.script),
                                        resolve_registry(body.roles), TtsModel)
                IN  /\ key' = [key EXCEPT ![job_id] = k]
                    /\ origin' = [origin EXCEPT ![job_id] = lookup_origin_job(index, k)]
                    /\ pc' = [pc EXCEPT ![job_id] = "decide"]
                    /\ UNCHANGED <<status, hist, outcome, failure>>
    /\ UNCHANGED <<debug, unit, clock, files, index, snap, path, calls, direct, lastCall>>

\* _is_ready_job
_is_ready_job(job_id) == status[job_id] # NoStatus /\ status[job_id].state = "READY"

CacheHit_ignoresOrigin(job_id) == FALSE

\* line 145: the cache-hit test
CacheHit(job_id) == origin[job_id] # NoJob /\ _is_ready_job(origin[job_id])

\* which way run_job goes at lines 145-153
BranchTaken(job_id) ==
    IF ~CacheHit(job_id) THEN "miss"
    ELSE IF audio[origin[job_id]] = NoJob \/ timings[origin[job_id]] = NoJob
         THEN "inconsistent"
    ELSE "hit"

RunJobDecide_resynthesizes(job_id) ==
    /\ pc[job_id] = "decide"
    /\ path' = [path EXCEPT ![job_id] = BranchTaken(job_id)]
    /\ LET o == origin[job_id]
       IN  IF ~CacheHit(job_id)
           THEN /\ pc' = [pc EXCEPT ![job_id] = "synth"]
                /\ UNCHANGED <<status, hist, outcome, failure, files>>
           ELSE IF audio[o] = NoJob \/ timings[o] = NoJob
           THEN /\ pc' = [pc EXCEPT ![job_id] = "synth"]
                /\ UNCHANGED <<status, hist, outcome, failure, files>>
           ELSE \E linked \in BOOLEAN :
                  IF ~linked
                  THEN /\ Handler(job_id, status[job_id], LinkError, "link")
                       /\ UNCHANGED files
                  ELSE /\ audio' = [audio EXCEPT ![job_id] = LinkOrCopy(audio[o], @)]
                       /\ timings' = [timings EXCEPT ![job_id] = LinkOrCopy(timings[o], @)]
                       /\ manifest' = [manifest EXCEPT ![job_id] =
                                          ManifestFor(job_id, o, UiScript(request[job_id].script))]
                       /\ pc' = [pc EXCEPT ![job_id] = "hit_aligning"]
                       /\ UNCHANGED <<status, hist, outcome, failure, request>>
    /\ UNCHANGED <<debug, unit, clock, index, locals, calls, direct, lastCall>>

\* lines 145-163 and 170: on a hit, reuse the origin's artifacts and write the
\* manifest; on a miss go on to synthesis
RunJobDecide(job_id) ==
    /\ pc[job_id] = "decide"
    /\ path' = [path EXCEPT ![job_id] = BranchTaken(job_id)]
    /\ LET o == origin[job_id]
       IN  IF ~CacheHit(job_id)
           THEN /\ pc' = [pc EXCEPT ![job_id] = "synth"]
                /\ UNCHANGED <<status, hist, outcome, failure, files>>
           ELSE IF audio[o] = NoJob \/ timings[o] = NoJob
           THEN /\ Handler(job_id, status[job_id],
                           "Cache inconsistency: READY job " \o o \o " missing artifacts",
                           "artifacts")
                /\ UNCHANGED files
           ELSE \E linked \in BOOLEAN :
                  IF ~linked
                  THEN /\ Handler(job_id, status[job_id], LinkError, "link")
                       /\ UNCHANGED files
                  ELSE /\ audio' = [audio EXCEPT ![job_id] = LinkOrCopy(audio[o], @)]
                       /\ timings' = [timings EXCEPT ![job_id] = LinkOrCopy(timings[o], @)]
                       /\ manifest' = [manifest EXCEPT ![job_id] =
                                          ManifestFor(job_id, o, UiScript(request[job_id].script))]
                       /\ pc' = [pc EXCEPT ![job_id] = "hit_aligning"]
                       /\ UNCHANGED <<status, hist, outcome, failure, request>>
    /\ UNCHANGED <<debug, unit, clock, index, locals, calls, direct, lastCall>>

\* line 165: self._transition(job_id, JobState.ALIGNING) on the cache-hit path
RunJobHitAligning(job_id) ==
    /\ pc[job_id] = "hit_aligning"
    /\ Step(job_id, "ALIGNING", "hit_ready", FALSE)
    /\ UNCHANGED <<debug, unit, clock, files, index, locals, path, calls, direct, lastCall>>

\* lines 166-167: self._transition(job_id, JobState.READY); return
RunJobHitReady(job_id) ==
    /\ pc[job_id] = "hit_ready"
    /\ Step(job_id, "READY", "done", TRUE)
    /\ UNCHANGED <<debug, unit, clock, files, index, locals, path, calls, direct, lastCall>>

\* lines 175-198: the Synthesizer call, which writes tts_out.wav when it
\* succeeds, then self._transition(job_id, JobState.ALIGNING)
RunJobSynthesize(job_id) ==
    /\ pc[job_id] = "synth"
    /\ synthCalls' = [synthCalls EXCEPT ![job_id] = @ + 1]
    /\ \E r \in {"ok"} \cup SynthErrors :
          IF r # "ok"
          THEN /\ Handler(job_id, status[job_id], r, "synth")
               /\ UNCHANGED audio
          ELSE /\ audio' = [audio EXCEPT ![job_id] = job_id]
               /\ Step(job_id, "ALIGNING", "align", FALSE)
    /\ UNCHANGED <<debug, unit, clock, request, timings, manifest, index, locals, path,
                   asrCalls, direct, lastCall>>

RunJobAlign_recordsBeforeReady(job_id) ==
    /\ pc[job_id] = "align"
    /\ asrCalls' = [asrCalls EXCEPT ![job_id] = @ + 1]
    /\ index' = IndexWith(index, key[job_id], job_id)
    /\ timings' = [timings EXCEPT ![job_id] = job_id]
    /\ manifest' = [manifest EXCEPT ![job_id] =
                       ManifestFor(job_id, job_id, UiScript(request[job_id].script))]
    /\ Step(job_id, "READY", "done", TRUE)
    /\ UNCHANGED <<debug, unit, clock, request, audio, locals, path, synthCalls,
                   direct, lastCall>>

RunJobAlign_readyBeforeManifest(job_id) ==
    /\ pc[job_id] = "align"
    /\ asrCalls' = [asrCalls EXCEPT ![job_id] = @ + 1]
    /\ \E r \in {"ok"} \cup AsrErrors :
          IF r # "ok"
          THEN /\ Handler(job_id, status[job_id], r, "align")
               /\ UNCHANGED <<timings, manifest>>
          ELSE /\ timings' = [timings EXCEPT ![job_id] = job_id]
               /\ UNCHANGED manifest
               /\ Step(job_id, "READY", "record", FALSE)
    /\ UNCHANGED <<debug, unit, clock, request, audio, index, locals, path, synthCalls,
                   direct, lastCall>>

\* lines 201-223: align_audio (the Transcriber call), timings.json,
\* manifest.json, then self._transition(job_id, JobState.READY)
RunJobAlign(job_id) ==
    /\ pc[job_id] = "align"
    /\ asrCalls' = [asrCalls EXCEPT ![job_id] = @ + 1]
    /\ \E r \in {"ok"} \cup AsrErrors :
          IF r # "ok"
          THEN /\ Handler(job_id, status[job_id], r, "align")
               /\ UNCHANGED <<timings, manifest>>
          ELSE /\ timings' = [timings EXCEPT ![job_id] = job_id]
               /\ manifest' = [manifest EXCEPT ![job_id] =
                                  ManifestFor(job_id, job_id, UiScript(request[job_id].script))]
               /\ Step(job_id, "READY", "record", FALSE)
    /\ UNCHANGED <<debug, unit, clock, request, audio, index, locals, path, synthCalls,
                   direct, lastCall>>

\* line 226, record_origin_job: idx = load_index(cache_root)
RunJobRecordLoad(job_id) ==
    /\ pc[job_id] = "record"
    /\ snap' = [snap EXCEPT ![job_id] = index]
    /\ pc' = [pc EXCEPT ![job_id] = "save"]
    /\ UNCHANGED <<debug, unit, clock, status, hist, files, index, key, origin, path,
                   outcome, calls, failure, direct, lastCall>>

\* record_origin_job: idx[key] = {"job_id": job_id}; save_index(cache_root, idx)
RunJobRecordSave(job_id) ==
    /\ pc[job_id] = "save"
    /\ index' = IndexWith(snap[job_id], key[job_id], job_id)
    /\ pc' = [pc EXCEPT ![job_id] = "done"]
    /\ outcome' = [outcome EXCEPT ![job_id] = "returned"]
    /\ UNCHANGED <<debug, unit, clock, status, hist, files, locals, path, calls, failure,
                   direct, lastCall>>

\* the error argument of a direct call: as in run_job, only FAILED carries one
DirectErrors(dst) ==
    IF dst = "FAILED" THEN {NoError, "cancelled", ""} ELSE {NoError}

\* run_job on the cache-miss path
RunJobMiss(job_id) ==
    \/ RunJobBegin(job_id)
    \/ RunJobPrepare(job_id)
    \/ RunJobDecide(job_id)
    \/ RunJobSynthesize(job_id)
    \/ RunJobAlign(job_id)
    \/ RunJobRecordLoad(job_id)
    \/ RunJobRecordSave(job_id)

run_job(job_id) ==
    \/ RunJobMiss(job_id)
    \/ RunJobHitAligning(job_id)
    \/ RunJobHitReady(job_id)

\* Jobs and cache: every job id; the clock is left out (timestamps stay 0) and
\* the direct calls carry no error argument
Next ==
    \/ \E body \in Bodies : create_job(body)
    \/ \E job_id \in JobIds, dst \in JobState :
          _transition(job_id, dst, NoError)
    \/ \E job_id \in JobIds : run_job(job_id)

Spec == Init /\ [][Next]_vars

\* One job with the clock running and the direct calls observed
NextCalls ==
    \/ Tick
    \/ \E body \in Bodies : uuid4 = JobSeq[1] /\ create_job(body)
    \/ \E dst \in JobState :
          \E error \in DirectErrors(dst) : ObservedTransition(JobSeq[1], dst, error)
    \/ RunJobMiss(JobSeq[1])

SpecCalls == Init /\ [][NextCalls]_vars

\* The files of a finished origin job are removed from its directory by
\* something other than this program (a purge of old job directories): the
\* case lines 150-153 of run_job test for.
RemoveArtifact(job_id) ==
    /\ _is_ready_job(job_id)
    /\ \E k \in DOMAIN index : index[k] = job_id
    /\ \/ audio[job_id] # NoJob /\ audio' = [audio EXCEPT ![job_id] = NoJob]
                               /\ UNCHANGED timings
       \/ timings[job_id] # NoJob /\ timings' = [timings EXCEPT ![job_id] = NoJob]
                                 /\ UNCHANGED audio
    /\ UNCHANGED <<debug, unit, clock, status, hist, request, manifest, index, pc,
                   locals, path, outcome, calls, failure, direct, lastCall>>

\* Jobs and cache with origin artifacts that can go missing
NextEvict ==
    \/ Next
    \/ \E job_id \in JobIds : RemoveArtifact(job_id)

SpecEvict == Init /\ [][NextEvict]_vars

\* ------------------------------------------------------------ make_cache_key
\* the job variables, untouched while a component is studied on its own
jobs == <<debug, clock, status, hist, request, audio, timings, manifest, index,
          pc, key, origin, snap, path, outcome, synthCalls, asrCalls, failure,
          direct, lastCall>>

MaxScriptLen == 3   \* pieces in a script text given to make_cache_key

\* script texts over one letter and the blank
Texts == UNION {[1..n -> {"a", " "}] : n \in 0..MaxScriptLen}

\* registries: dicts over two roles, in either insertion order
Registries ==
    {<<>>, <<<<"narrator", "Kore">>>>, <<<<"narrator", "Puck">>>>,
     <<<<"stranger", "Kore">>>>,
     <<<<"narrator", "Kore">>, <<"stranger", "Kore">>>>,
     <<<<"stranger", "Kore">>, <<"narrator", "Kore">>>>,
     <<<<"narrator", "Puck">>, <<"stranger", "Kore">>>>,
     <<<<"stranger", "Kore">>, <<"narrator", "Puck">>>>}

Models == {TtsModel, "gemini-2.5-pro-preview-tts"}

KeyArgs == [script : Texts, registry : Registries, model : Models]

InitKey ==
    /\ debug = FALSE
    /\ NoJobsYet
    /\ unit \in [op : {"args"}, a : KeyArgs, b : KeyArgs]

\* make_cache_key applied to each of the two argument triples
ApplyMakeCacheKey ==
    /\ unit.op = "args"
    /\ unit' = [op |-> "keys", a |-> unit.a, b |-> unit.b,
              ka |-> make_cache_key(unit.a.script, unit.a.registry, unit.a.model),
              kb |-> make_cache_key(unit.b.script, unit.b.registry, unit.b.model)]
    /\ UNCHANGED jobs

SpecKey == InitKey /\ [][ApplyMakeCacheKey]_vars

\* ------------------------------------------------------------ index.json
\* save_index and load_index on the files of the cache root.  A directory
\* entry names an inode (0: no such file); a writer that has opened the temp
\* file keeps writing to the inode it opened, whatever the names do.
Writers == {"w1", "w2"}
NoInode == 0
Truncated == "<empty file>"     \* a file opened with "w" and not written yet
OldIndex == "index on disk"    \* a complete mapping saved earlier

\* the mapping a writer passes to save_index
IdxOf(w) == "index of " \o w

InitIndex ==
    /\ debug = FALSE
    /\ NoJobsYet
    /\ \E old \in BOOLEAN :
          unit = [op |-> "index",
                  inodes |-> IF old THEN <<OldIndex>> ELSE <<>>,
                  index |-> IF old THEN 1 ELSE NoInode,
                  tmp |-> NoInode,
                  pc |-> [w \in Writers |-> "idle"],
                  fd |-> [w \in Writers |-> NoInode],
                  seen |-> "nothing read"]

\* save_index line 59, tmp.write_text: open(tmp, "w") creates the file or
\* truncates it
SaveOpen(w) ==
    /\ unit.op = "index"
    /\ unit.pc[w] = "idle"
    /\ IF unit.tmp = NoInode
       THEN unit' = [unit EXCEPT !.inodes = Append(@, Truncated),
                                 !.tmp = Len(unit.inodes) + 1,
                                 !.fd[w] = Len(unit.inodes) + 1,
                                 !.pc[w] = "opened"]
       ELSE unit' = [unit EXCEPT !.inodes[unit.tmp] = Truncated,
                                 !.fd[w] = unit.tmp,
                                 !.pc[w] = "opened"]
    /\ UNCHANGED jobs

\* save_index line 59, tmp.write_text: the text is written and the file closed
SaveWrite(w) ==
    /\ unit.op = "index"
    /\ unit.pc[w] = "opened"
    /\ unit' = [unit EXCEPT !.inodes[unit.fd[w]] = IdxOf(w),
                            !.pc[w] = "written"]
    /\ UNCHANGED jobs

\* save_index line 60, tmp.replace(p): the rename, FileNotFoundError when the
\* temp file is no longer there
SaveReplace(w) ==
    /\ unit.op = "index"
    /\ unit.pc[w] = "written"
    /\ IF unit.tmp = NoInode
       THEN unit' = [unit EXCEPT !.pc[w] = "raised"]
       ELSE unit' = [unit EXCEPT !.index = unit.tmp,
                                 !.tmp = NoInode,
                                 !.pc[w] = "done"]
    /\ UNCHANGED jobs

\* the writing process dies inside save_index
SaveCrash(w) ==
    /\ unit.op = "index"
    /\ unit.pc[w] \in {"opened", "written"}
    /\ unit' = [unit EXCEPT !.pc[w] = "crashed"]
    /\ UNCHANGED jobs

\* load_index lines 45-52: what a reader finds in index.json
load_index ==
    /\ unit.op = "index"
    /\ unit' = [unit EXCEPT !.seen = IF unit.index = NoInode THEN "no file"
                                     ELSE unit.inodes[unit.index]]
    /\ UNCHANGED jobs

NextIndex ==
    \/ \E w \in Writers : SaveOpen(w) \/ SaveWrite(w) \/ SaveReplace(w) \/ SaveCrash(w)
    \/ load_index

SpecIndex == InitIndex /\ [][NextIndex]_vars

\* ------------------------------------------------------------ status.json
\* One job's status.json with its one writer (create_job, then _transition
\* calls) and a reader (get_status).  _write_json opens the file itself with
\* "w" and dumps into it.
FileOf(kind, data) == [kind |-> kind, data |-> data]

InitStatusFile ==
    /\ debug = FALSE
    /\ NoJobsYet
    /\ unit = [op |-> "status",
               file |-> FileOf("absent", NoStatus),
               pc |-> "idle",
               pending |-> NoStatus,
               seen |-> FileOf("nothing read", NoStatus)]

\* create_job lines 104-110: _write_json opens status.json
CreateOpen(now) ==
    /\ unit.op = "status"
    /\ unit.pc = "idle"
    /\ unit.file.kind = "absent"
    /\ unit' = [unit EXCEPT !.file = FileOf("truncated", NoStatus),
                            !.pending = NewStatus(JobSeq[1], now),
                            !.pc = "opened"]
    /\ UNCHANGED jobs

\* _transition lines 296-313 up to the open of _write_json: the record is read,
\* changed in memory, and status.json opened for writing
TransitionOpen(dst, error, now) ==
    /\ unit.op = "status"
    /\ unit.pc = "idle"
    /\ unit.file.kind = "whole"
    /\ now >= unit.file.data.updatedAt
    /\ \/ TransitionResult(unit.file.data, dst) = "ok"
       \/ TransitionResult(unit.file.data, dst) = "invalid" /\ Truthy(error)
    /\ unit' = [unit EXCEPT !.file = FileOf("truncated", NoStatus),
                            !.pending = TransitionStatus(unit.file.data, dst, error, now),
                            !.pc = "opened"]
    /\ UNCHANGED jobs

\* _write_json line 319: json.dump and the close that flushes it
WriteJsonClose ==
    /\ unit.op = "status"
    /\ unit.pc = "opened"
    /\ unit' = [unit EXCEPT !.file = FileOf("whole", unit.pending),
                            !.pc = "idle"]
    /\ UNCHANGED jobs

\* get_status lines 252-262 with _read_json: None when the file is absent, the
\* record when json.load parses it, JSONDecodeError otherwise
get_status ==
    /\ unit.op = "status"
    /\ unit' = [unit EXCEPT !.seen =
                    IF unit.file.kind = "truncated"
                    THEN FileOf("JSONDecodeError", NoStatus)
                    ELSE unit.file]
    /\ UNCHANGED jobs

NextStatusFile ==
    \/ \E now \in 0..MaxClock : CreateOpen(now)
    \/ \E dst \in JobState, now \in 0..MaxClock :
          \E error \in DirectErrors(dst) : TransitionOpen(dst, error, now)
    \/ WriteJsonClose
    \/ get_status

SpecStatusFile == InitStatusFile /\ [][NextStatusFile]_vars

\* ------------------------------------------------------------ align_audio
MaxTokens == 2      \* reference tokens, and transcribed words, per input

RECURSIVE Factorial(_)
Factorial(n) == IF n <= 1 THEN 1 ELSE n * Factorial(n - 1)

\* Times are exact: a number stands for that many 1/Scale milliseconds, so the
\* one division of the code (span / count, count <= MaxTokens) has no remainder.
Scale == Factorial(MaxTokens)
Ms(n) == n * Scale
Eps == Ms(1)            \* eps = 1e-3
TinySpan_twentyMs == Ms(20)

TinySpan == Ms(10)      \* dt = 0.01
WindowGap == Ms(20)     \* 0.02 in asr_window

Max2(x, y) == IF x >= y THEN x ELSE y

FixFrom_asGiven(words, last) == words

\* the loop shared by _fix_monotonic and _fix_ref_monotonic, from `last` on
RECURSIVE FixFrom(_, _)
FixFrom(words, last) ==
    IF words = <<>> THEN <<>>
    ELSE LET w == Head(words)
             start == IF w.start < last - Eps THEN last ELSE w.start
             end == IF w.end < start + Eps THEN start + Eps ELSE w.end
         IN  <<[w EXCEPT !.start = start, !.end = end]>> \o FixFrom(Tail(words), end)

_fix_monotonic(words) == FixFrom(words, 0)

_fix_ref_monotonic(refs) == FixFrom(refs, 0)

\* _transcribe_words: the transcriber's words (those with both timestamps and a
\* non-empty normalized token), then _fix_monotonic
_transcribe_words(raw) == _fix_monotonic(raw)

\* difflib.SequenceMatcher(a, b, autojunk=False): positions are Python's,
\* counted from 0, and ranges are half-open
RECURSIVE MatchLen(_, _, _, _, _, _)
MatchLen(a, b, i, j, ahi, bhi) ==
    IF i < ahi /\ j < bhi /\ a[i + 1] = b[j + 1]
    THEN 1 + MatchLen(a, b, i + 1, j + 1, ahi, bhi)
    ELSE 0

\* find_longest_match: the longest common block of a[alo:ahi] and b[blo:bhi],
\* the one starting first in a and then first in b among the longest
find_longest_match(a, b, alo, ahi, blo, bhi) ==
    LET starts == (alo..(ahi - 1)) \X (blo..(bhi - 1))
        SizeAt(p) == MatchLen(a, b, p[1], p[2], ahi, bhi)
    IN  IF \A p \in starts : SizeAt(p) = 0 THEN <<alo, blo, 0>>
        ELSE LET best == CHOOSE p \in starts :
                            \A q \in starts :
                               \/ SizeAt(q) < SizeAt(p)
                               \/ /\ SizeAt(q) = SizeAt(p)
                                  /\ \/ p[1] < q[1]
                                     \/ p[1] = q[1] /\ p[2] <= q[2]
             IN  <<best[1], best[2], SizeAt(best)>>

\* get_matching_blocks, before the sentinel is appended
RECURSIVE MatchingBlocks(_, _, _, _, _, _)
MatchingBlocks(a, b, alo, ahi, blo, bhi) ==
    LET m == find_longest_match(a, b, alo, ahi, blo, bhi)
    IN  IF m[3] = 0 THEN <<>>
        ELSE MatchingBlocks(a, b, alo, m[1], blo, m[2])
             \o <<m>>
             \o MatchingBlocks(a, b, m[1] + m[3], ahi, m[2] + m[3], bhi)

Op(tag, i1, i2, j1, j2) == [tag |-> tag, i1 |-> i1, i2 |-> i2, j1 |-> j1, j2 |-> j2]

\* get_opcodes: the gap before each matching block, then the block
RECURSIVE OpcodesFrom(_, _, _, _, _)
OpcodesFrom(blocks, i, j, la, lb) ==
    LET ai == IF blocks = <<>> THEN la ELSE Head(blocks)[1]
        bj == IF blocks = <<>> THEN lb ELSE Head(blocks)[2]
        size == IF blocks = <<>> THEN 0 ELSE Head(blocks)[3]
        gap == IF i < ai /\ j < bj THEN <<Op("replace", i, ai, j, bj)>>
               ELSE IF i < ai THEN <<Op("delete", i, ai, j, bj)>>
               ELSE IF j < bj THEN <<Op("insert", i, ai, j, bj)>>
               ELSE <<>>
        same == IF size > 0 THEN <<Op("equal", ai, ai + size, bj, bj + size)>>
                ELSE <<>>
    IN  IF blocks = <<>> THEN gap
        ELSE gap \o same \o OpcodesFrom(Tail(blocks), ai + size, bj + size, la, lb)

get_opcodes(a, b) ==
    OpcodesFrom(MatchingBlocks(a, b, 0, Len(a), 0, Len(b)), 0, 0, Len(a), Len(b))

\* _assign_timings.asr_window
asr_window(asr_words, i1, i2) ==
    LET N == Len(asr_words)
        hasLeft == i1 - 1 >= 0
        hasRight == i1 < N
        left == IF hasLeft THEN asr_words[i1].end ELSE 0
        right == IF hasRight THEN asr_words[i1 + 1].start ELSE 0
    IN  IF i2 > i1 THEN <<asr_words[i1 + 1].start, asr_words[i2].end>>
        ELSE IF hasLeft /\ hasRight /\ right > left THEN <<left, right>>
        ELSE IF hasLeft THEN <<left, left + WindowGap>>
        ELSE IF hasRight THEN <<Max2(0, right - WindowGap), right>>
        ELSE <<0, WindowGap>>

\* _assign_timings.assign_linear on out[j1:j2]
assign_linear(out, j1, j2, t0, t1) ==
    LET count == Max2(1, j2 - j1)
        span == Max2(0, t1 - t0)
        step == span \div count
    IN  [j \in DOMAIN out |->
            IF j - 1 < j1 \/ j - 1 >= j2 THEN out[j]
            ELSE IF span <= 0
                 THEN [out[j] EXCEPT !.start = t0 + (j - 1 - j1) * TinySpan,
                                     !.end = t0 + (j - j1) * TinySpan]
            ELSE LET start == t0 + (j - 1 - j1) * step
                     e == IF j - 1 = j2 - 1 THEN t1 ELSE start + step
                 IN  [out[j] EXCEPT !.start = start, !.end = Max2(e, start + Eps)]]

\* the "equal" branch of _assign_timings, from reference position j on
RECURSIVE AssignEqual(_, _, _, _, _, _)
AssignEqual(out, asr_words, j, k, j1, j2) ==
    IF j >= j2 THEN out
    ELSE LET N == Len(asr_words)
             last == IF j > j1 THEN out[j].end
                     ELSE IF N > 0 THEN asr_words[N].end ELSE 0
             placed == IF k < N
                       THEN [out[j + 1] EXCEPT !.start = asr_words[k + 1].start,
                                               !.end = asr_words[k + 1].end]
                       ELSE [out[j + 1] EXCEPT !.start = last, !.end = last + TinySpan]
         IN  AssignEqual([out EXCEPT ![j + 1] = placed], asr_words, j + 1, k + 1, j1, j2)

RECURSIVE AssignOps(_, _, _)
AssignOps(out, asr_words, ops) ==
    IF ops = <<>> THEN out
    ELSE LET op == Head(ops)
             window == asr_window(asr_words, op.i1, op.i2)
             next == IF op.tag = "equal"
                     THEN AssignEqual(out, asr_words, op.j1, op.i1, op.j1, op.j2)
                     ELSE IF op.tag \in {"replace", "insert"}
                     THEN assign_linear(out, op.j1, op.j2, window[1], window[2])
                     ELSE out
         IN  AssignOps(next, asr_words, Tail(ops))

_assign_timings(ref_tokens, asr_words, ops) ==
    _fix_ref_monotonic(
        AssignOps([j \in DOMAIN ref_tokens |->
                      [text |-> ref_tokens[j], start |-> 0, end |-> 0]],
                  asr_words, ops))

align_audio_idxFromOne(ref_tokens, raw) ==
    [i \in DOMAIN ref_tokens |->
        [w |-> ref_tokens[i], s |-> (i - 1) * TinySpan, e |-> i * TinySpan, idx |-> i]]

\* align_audio lines 24-53, given the tokens of the script and what the
\* transcriber returns: the list under "words"
align_audio(ref_tokens, raw) ==
    LET asr_words == _transcribe_words(raw)
        hyp_tokens == [i \in DOMAIN asr_words |-> asr_words[i].word_norm]
        aligned == _assign_timings(ref_tokens, asr_words,
                                   get_opcodes(hyp_tokens, ref_tokens))
    IN  IF ref_tokens = <<>> THEN <<>>
        ELSE IF asr_words = <<>>
        THEN [i \in DOMAIN ref_tokens |->
                 [w |-> ref_tokens[i], s |-> (i - 1) * TinySpan,
                  e |-> (i - 1) * TinySpan + TinySpan, idx |-> i - 1]]
        ELSE [i \in DOMAIN aligned |->
                 [w |-> aligned[i].text, s |-> aligned[i].start,
                  e |-> aligned[i].end, idx |-> i - 1]]

SeqsUpTo(S, n) == UNION {[1..k -> S] : k \in 0..n}

Tokens == {"hello", "there"}
Timestamps == {Ms(0), Ms(29), Ms(30)}    \* what the transcriber reports, any order
AsrWords == [word_norm : Tokens, start : Timestamps, end : Timestamps]

AlignSteps_tokenizeFirst(audio_exists, ref_tokens) ==
    IF ref_tokens = <<>> THEN <<"tokenize">>
    ELSE IF ~audio_exists THEN <<"tokenize", "exists">>
    ELSE <<"tokenize", "exists", "transcribe">>

\* align_audio lines 21-33: what it does, in order, before aligning: the test
\* that the audio file exists, _normalize_and_tokenize, _transcribe_words
AlignSteps(audio_exists, ref_tokens) ==
    IF ~audio_exists THEN <<"exists">>
    ELSE IF ref_tokens = <<>> THEN <<"exists", "tokenize">>
    ELSE <<"exists", "tokenize", "transcribe">>

InitAlign ==
    /\ debug = FALSE
    /\ NoJobsYet
    /\ unit \in [op : {"align"}, audio : BOOLEAN, ref : SeqsUpTo(Tokens, MaxTokens),
                 raw : SeqsUpTo(AsrWords, MaxTokens)]

\* align_audio: FileNotFoundError when the audio file is missing
ApplyAlignAudio ==
    /\ unit.op = "align"
    /\ unit' = [op |-> IF unit.audio THEN "aligned" ELSE "raised",
                audio |-> unit.audio, ref |-> unit.ref, raw |-> unit.raw,
                steps |-> AlignSteps(unit.audio, unit.ref),
                words |-> IF unit.audio THEN align_audio(unit.ref, unit.raw) ELSE <<>>]
    /\ UNCHANGED jobs

SpecAlign == InitAlign /\ [][ApplyAlignAudio]_vars

\* ------------------------------------------------------------ synthesize_chunked
MaxChunks == 3      \* payloads (line chunks) of one script

\* (channels, sample width, frame rate) of a WAV; _one_pass wraps raw PCM as
\* PcmFormat, and passes on as it is what the Synthesizer labels a WAV
PcmFormat == [ch |-> 1, sw |-> 2, fr |-> 24000]
Formats == {PcmFormat,
            [ch |-> 2, sw |-> 2, fr |-> 24000],
            [ch |-> 1, sw |-> 4, fr |-> 24000],
            [ch |-> 1, sw |-> 2, fr |-> 44100]}

\* what the Synthesizer does with one payload: audio in some format, a response
\* without audio, or an exception of the client
ChunkOutcomes ==
    [kind : {"audio"}, fmt : Formats]
    \cup [kind : {"empty", "error"}, fmt : {PcmFormat}]

ClientError == "deadline exceeded"
FormatError == "Inconsistent WAV formats across chunks"
DefaultSilenceMs == 150

\* Audio frames are kept as runs: n frames in a row with the same sample v
\* (v = 0: silence; n > 0 in every file)
Run(v, n) == [v |-> v, n |-> n]
NoFile == [fmt |-> PcmFormat, frames |-> <<Run(0, 0)>>]

\* the WAV _one_pass returns for payload i (from 0): its frames are the
\* Synthesizer's audio for that payload, here one frame that tells the payload
WavOf(i, made) == [fmt |-> made.fmt, frames |-> <<Run(i + 1, 1)>>]
ChunkResult(i, wav_bytes) == [index |-> i, wav_bytes |-> wav_bytes]

\* the exception _one_pass raises for payload i
ChunkError(i, made) ==
    IF made.kind = "empty" THEN "No audio returned for chunk " \o ToString(i)
    ELSE ClientError

_read_wav_params(wav) == wav.fmt

MixedFormats_channelsOnly(wavs) ==
    \E i \in DOMAIN wavs : wavs[i].fmt.ch # wavs[1].fmt.ch

\* _concat_wavs line 48: some chunk's parameters differ from the first one's
MixedFormats(wavs) ==
    \E i \in DOMAIN wavs : _read_wav_params(wavs[i]) # _read_wav_params(wavs[1])

silence_frames_roundedUp(fr, silence_ms) == (fr * silence_ms + 999) \div 1000

\* line 40: int(fr * silence_ms / 1000)
silence_frames(fr, silence_ms) == (fr * silence_ms) \div 1000

\* line 41: silence_frames frames of sw * ch zero bytes each
silence_bytes(fmt, silence_ms) ==
    IF silence_frames(fmt.fr, silence_ms) = 0 THEN <<>>
    ELSE <<Run(0, silence_frames(fmt.fr, silence_ms))>>

\* lines 47-54: the frames of the chunks in the order given, the silence
\* after each chunk but the last
RECURSIVE ConcatFrames(_, _)
ConcatFrames(wavs, silence) ==
    IF wavs = <<>> THEN <<>>
    ELSE IF Len(wavs) = 1 THEN wavs[1].frames
    ELSE wavs[1].frames \o silence \o ConcatFrames(Tail(wavs), silence)

_concat_wavs(wavs, silence_ms) ==
    [fmt |-> IF wavs = <<>> THEN PcmFormat ELSE _read_wav_params(wavs[1]),
     frames |-> IF wavs = <<>> THEN <<>>
                ELSE ConcatFrames(wavs, silence_bytes(_read_wav_params(wavs[1]),
                                                     silence_ms))]

SortByIndex_asCompleted(results) == results

\* results.sort(key=lambda r: r.index); the indexes are distinct
SortByIndex(results) ==
    [k \in DOMAIN results |->
        CHOOSE r \in {results[i] : i \in DOMAIN results} :
            Cardinality({i \in DOMAIN results : results[i].index < r.index}) = k - 1]

DefaultMaxWorkers == 5
Finished == {"done", "failed"}
Running(task) == {i \in DOMAIN task : task[i] = "running"}

\* synthesize_chunked once every payload is submitted to the executor, called
\* from run_job line 176 with the job SYNTHESIZING
InitChunks ==
    /\ debug = FALSE
    /\ NoJobsYet
    /\ \E n \in 1..MaxChunks :
          unit \in [op : {"chunks"},
                    max_workers : {1, DefaultMaxWorkers},
                    out : [1..n -> ChunkOutcomes],
                    task : {[i \in 1..n |-> "queued"]},
                    seen : {{}},
                    results : {<<>>},
                    coord : {"collecting"},
                    err : {NoError},
                    file : {NoFile},
                    status : {[NewStatus(JobSeq[1], 0) EXCEPT !.state = "SYNTHESIZING"]}]

\* a worker thread of the pool takes the next queued work item
TaskStart(i) ==
    /\ unit.op = "chunks"
    /\ unit.task[i] = "queued"
    /\ \A k \in 1..(i - 1) : unit.task[k] # "queued"
    /\ Cardinality(Running(unit.task)) < unit.max_workers
    /\ unit' = [unit EXCEPT !.task[i] = "running"]
    /\ UNCHANGED jobs

\* _one_pass(i, payload) ends: it returns a ChunkResult or raises
TaskFinish(i) ==
    /\ unit.op = "chunks"
    /\ unit.task[i] = "running"
    /\ unit' = [unit EXCEPT !.task[i] =
                   IF unit.out[i].kind = "audio" THEN "done" ELSE "failed"]
    /\ UNCHANGED jobs

Collect_skipsFailed(i) ==
    /\ unit.op = "chunks"
    /\ unit.coord = "collecting"
    /\ unit.task[i] \in Finished
    /\ i \notin unit.seen
    /\ unit' = IF unit.task[i] = "done"
               THEN [unit EXCEPT !.seen = @ \cup {i},
                                 !.results = Append(@, ChunkResult(i - 1,
                                                 WavOf(i - 1, unit.out[i])))]
               ELSE [unit EXCEPT !.seen = @ \cup {i}]
    /\ UNCHANGED jobs

\* lines 256-257: as_completed hands over a finished future not yet handed
\* over, and fut.result() returns its ChunkResult or raises its exception
Collect(i) ==
    /\ unit.op = "chunks"
    /\ unit.coord = "collecting"
    /\ unit.task[i] \in Finished
    /\ i \notin unit.seen
    /\ unit' = IF unit.task[i] = "done"
               THEN [unit EXCEPT !.seen = @ \cup {i},
                                 !.results = Append(@, ChunkResult(i - 1,
                                                 WavOf(i - 1, unit.out[i])))]
               ELSE [unit EXCEPT !.seen = @ \cup {i},
                                 !.coord = "exiting",
                                 !.err = ChunkError(i - 1, unit.out[i])]
    /\ UNCHANGED jobs

ExecutorExit_noWait ==
    /\ unit.op = "chunks"
    /\ \/ unit.coord = "exiting" /\ unit' = [unit EXCEPT !.coord = "raised"]
       \/ /\ unit.coord = "collecting"
          /\ unit.seen = DOMAIN unit.task
          /\ unit' = [unit EXCEPT !.coord = "merging"]
    /\ UNCHANGED jobs

\* the end of the `with ThreadPoolExecutor` block, left by the loop's end or by
\* an exception: __exit__ is shutdown(wait=True), which returns when every
\* submitted work item has run
ExecutorExit ==
    /\ unit.op = "chunks"
    /\ \A i \in DOMAIN unit.task : unit.task[i] \in Finished
    /\ \/ unit.coord = "exiting" /\ unit' = [unit EXCEPT !.coord = "raised"]
       \/ /\ unit.coord = "collecting"
          /\ unit.seen = DOMAIN unit.task
          /\ unit' = [unit EXCEPT !.coord = "merging"]
    /\ UNCHANGED jobs

\* lines 260-266: sort, _concat_wavs, write_bytes
Merge ==
    /\ unit.op = "chunks"
    /\ unit.coord = "merging"
    /\ LET sorted == SortByIndex(unit.results)
           wavs == [k \in DOMAIN sorted |-> sorted[k].wav_bytes]
       IN  unit' = IF MixedFormats(wavs)
                   THEN [unit EXCEPT !.coord = "raised", !.err = FormatError]
                   ELSE [unit EXCEPT !.coord = "returned", !.file = _concat_wavs(wavs, DefaultSilenceMs)]
    /\ UNCHANGED jobs

\* run_job's except handler after synthesize_chunked raised
ChunkedHandler ==
    /\ unit.op = "chunks"
    /\ unit.coord = "raised"
    /\ unit' = [unit EXCEPT !.coord = "handled",
                            !.status = TransitionStatus(@, "FAILED", unit.err, 0)]
    /\ UNCHANGED jobs

NextChunks ==
    \/ \E i \in 1..MaxChunks : i \in DOMAIN unit.task /\ TaskStart(i)
    \/ \E i \in 1..MaxChunks : i \in DOMAIN unit.task /\ TaskFinish(i)
    \/ \E i \in 1..MaxChunks : i \in DOMAIN unit.task /\ Collect(i)
    \/ ExecutorExit
    \/ Merge
    \/ ChunkedHandler

SpecChunks == InitChunks /\ [][NextChunks]_vars

\* _concat_wavs on its own: chunks of one format, each with some frames
MaxFrames == 2      \* frames of one chunk's audio
SilenceMs == {0, 1, DefaultSilenceMs}

InitConcat ==
    /\ debug = FALSE
    /\ NoJobsYet
    /\ \E n \in 1..MaxChunks :
          \E fmt \in Formats, size \in [1..n -> 1..MaxFrames] :
             unit \in [op : {"concat"},
                       wavs : {[k \in 1..n |-> [fmt |-> fmt,
                                                frames |-> <<Run(k, size[k])>>]]},
                       silence_ms : SilenceMs]

ApplyConcatWavs ==
    /\ unit.op = "concat"
    /\ unit' = [op |-> "merged", wavs |-> unit.wavs, silence_ms |-> unit.silence_ms,
                merged |-> _concat_wavs(unit.wavs, unit.silence_ms)]
    /\ UNCHANGED jobs

SpecConcat == InitConcat /\ [][ApplyConcatWavs]_vars

\* ------------------------------------------------------------ lookup_origin_job
\* index.json as a reader finds it: missing, text that is not JSON, or a JSON
\* value.  A JSON object is kept as its members; a value that can stand for an
\* index entry is kept as its type and, for an object, its "job_id" member
\* (NoJob: no such member).
CacheKeys == {"k1", "k2"}
EntryValues ==
    [type : {"object"}, job_id : JobIds \cup {NoJob}]
    \cup [type : {"null", "string", "array"}, job_id : {NoJob}]
JsonNull == [type |-> "null", job_id |-> NoJob]
NoMembers == [k \in {} |-> JsonNull]
JsonValues ==
    [type : {"null", "number", "string", "array"}, members : {NoMembers}]
    \cup UNION {[type : {"object"}, members : [S -> EntryValues]] : S \in SUBSET CacheKeys}
EmptyObject == [type |-> "object", members |-> NoMembers]
IndexFiles ==
    [kind : {"missing", "not json"}, value : {EmptyObject}]
    \cup [kind : {"json"}, value : JsonValues]

\* load_index lines 45-52: what it returns for the file
LoadedIndex(file) ==
    IF file.kind = "missing" THEN EmptyObject
    ELSE IF file.kind = "not json" THEN EmptyObject
    ELSE file.value

Returned(value) == [raised |-> FALSE, value |-> value]
Raised(message) == [raised |-> TRUE, value |-> message]

\* lookup_origin_job lines 67-71 on the loaded value: .get exists on a dict only
LookupResult(file, k) ==
    LET idx == LoadedIndex(file)
        entry == IF k \in DOMAIN idx.members THEN idx.members[k] ELSE JsonNull
    IN  IF idx.type # "object"
        THEN Raised("'" \o idx.type \o "' object has no attribute 'get'")
        ELSE IF entry.type = "object" /\ entry.job_id # NoJob
        THEN Returned(entry.job_id)
        ELSE Returned(NoJob)

InitLookup ==
    /\ debug = FALSE
    /\ NoJobsYet
    /\ unit \in [op : {"lookup"}, file : IndexFiles, k : CacheKeys]

ApplyLookup ==
    /\ unit.op = "lookup"
    /\ unit' = [op |-> "looked up", file |-> unit.file, k |-> unit.k,
                result |-> LookupResult(unit.file, unit.k)]
    /\ UNCHANGED jobs

SpecLookup == InitLookup /\ [][ApplyLookup]_vars

\* ------------------------------------------------------------ _group_lines_into_chunks
MaxLines == 12          \* parsed lines of one script
MaxPerChunk == 6        \* lines_per_chunk

\* the i-th line of a script: a [Role]-tagged line with its own words
ScriptLineNo(i) == Line("narrator", "", "line " \o ToString(i))

\* _format_line_for_tts for a line without a <character> tag
_format_line_for_tts(line) == "[" \o line.role \o "] " \o line.text

Min2(x, y) == IF x <= y THEN x ELSE y

\* lines 100-102: formatted[i:i + lines_per_chunk] for i in range(0, len, lines_per_chunk)
ChunkByCount(formatted, lines_per_chunk) ==
    [k \in 1..((Len(formatted) + lines_per_chunk - 1) \div lines_per_chunk) |->
        SubSeq(formatted, (k - 1) * lines_per_chunk + 1,
               Min2(k * lines_per_chunk, Len(formatted)))]

SmallTail_anyTail(chunks, lines_per_chunk) == Len(chunks) >= 2

\* line 105: the test for merging the tail into the chunk before it
SmallTail(chunks, lines_per_chunk) ==
    Len(chunks) >= 2 /\ Len(chunks[Len(chunks)]) < lines_per_chunk \div 2

_group_lines_into_chunks_dropsTail(lines, lines_per_chunk) ==
    LET formatted == [i \in DOMAIN lines |-> _format_line_for_tts(lines[i])]
        chunks == ChunkByCount(formatted, lines_per_chunk)
    IN  IF SmallTail(chunks, lines_per_chunk)
        THEN SubSeq(chunks, 1, Len(chunks) - 1)
        ELSE chunks

\* _group_lines_into_chunks; no formatted line is empty, each has its [Role] tag
_group_lines_into_chunks(lines, lines_per_chunk) ==
    LET formatted == [i \in DOMAIN lines |-> _format_line_for_tts(lines[i])]
        chunks == ChunkByCount(formatted, lines_per_chunk)
        last == Len(chunks)
    IN  IF SmallTail(chunks, lines_per_chunk)
        THEN [k \in 1..(last - 1) |->
                 IF k = last - 1 THEN chunks[k] \o chunks[last] ELSE chunks[k]]
        ELSE chunks

InitGroup ==
    /\ debug = FALSE
    /\ NoJobsYet
    /\ \E n \in 0..MaxLines :
          unit \in [op : {"group"},
                    lines : {[i \in 1..n |-> ScriptLineNo(i)]},
                    lines_per_chunk : 1..MaxPerChunk]

ApplyGroupLines ==
    /\ unit.op = "group"
    /\ unit' = [op |-> "grouped", lines |-> unit.lines,
                lines_per_chunk |-> unit.lines_per_chunk,
                chunks |-> _group_lines_into_chunks(unit.lines, unit.lines_per_chunk)]
    /\ UNCHANGED jobs

SpecGroup == InitGroup /\ [][ApplyGroupLines]_vars

\* ------------------------------------------------------------ _link_or_copy
\* One call _link_or_copy(src, dst), a system call at a time.  dst is what the
\* destination path holds (before: when the call began): NoEntry, or how it
\* came to be and whose content.
NoEntry == [how |-> "absent", content |-> "<none>"]
Contents == {"origin audio", "origin timings", "older file"}
Entry(how, content) == [how |-> how, content |-> content]

InitLink ==
    /\ debug = FALSE
    /\ NoJobsYet
    /\ \E dst \in {NoEntry} \cup {Entry("file", c) : c \in Contents} :
          unit \in [op : {"link"},
                 src : {"origin audio", "origin timings"},
                 before : {dst},
                 dst : {dst},
                 fails : SUBSET {"link", "symlink", "copy"},
                 pc : {"start"},
                 tried : {<<>>},
                 result : {"running"}]

LinkStart_overwrites ==
    /\ unit.op = "link"
    /\ unit.pc = "start"
    /\ unit' = [unit EXCEPT !.pc = "link"]
    /\ UNCHANGED jobs

\* lines 241-243: mkdir of the parent, then return if dst exists
LinkStart ==
    /\ unit.op = "link"
    /\ unit.pc = "start"
    /\ unit' = IF unit.dst # NoEntry
               THEN [unit EXCEPT !.pc = "done", !.result = "returned"]
               ELSE [unit EXCEPT !.pc = "link"]
    /\ UNCHANGED jobs

\* one of the three attempts: os.link, os.symlink, shutil.copy2.  The first two
\* are inside try/except Exception; copy2's exception leaves the function.
Attempt(call, how, next) ==
    /\ unit.op = "link"
    /\ unit.pc = call
    /\ unit' = IF call \in unit.fails
               THEN IF next = "raise"
                    THEN [unit EXCEPT !.tried = Append(@, call), !.pc = "done",
                                      !.result = "raised"]
                    ELSE [unit EXCEPT !.tried = Append(@, call), !.pc = next]
               ELSE [unit EXCEPT !.tried = Append(@, call), !.pc = "done",
                                 !.result = "returned",
                                 !.dst = Entry(how, unit.src)]
    /\ UNCHANGED jobs

TryLink == Attempt("link", "hard link", "symlink")
TrySymlink == Attempt("symlink", "symlink", "copy")
TryCopy == Attempt("copy", "file", "raise")

NextLink == LinkStart \/ TryLink \/ TrySymlink \/ TryCopy

SpecLink == InitLink /\ [][NextLink]_vars

\* the background task is scheduled: every started run_job takes its next step,
\* and every external call it makes returns or raises
FairSpec == Spec /\ \A job_id \in JobIds : WF_vars(run_job(job_id))

\* ------------------------------------------------------------ claims
NonTerminal == JobState \ TERMINAL_STATES

\* the transition graph of the lifecycle, as the design states it
LifecycleEdges ==
    {<<"PENDING", "SYNTHESIZING">>, <<"SYNTHESIZING", "MASTERING">>,
     <<"MASTERING", "ALIGNING">>, <<"ALIGNING", "READY">>}
    \cup {<<s, "FAILED">> : s \in NonTerminal}

\* C1: a job created by create_job and driven only by run_job on a cache miss,
\* with registry resolution, parsing, synthesis and alignment all succeeding,
\* ends READY and its state has taken exactly PENDING, SYNTHESIZING, ALIGNING,
\* READY in that order.
C1_SuccessfulMissEndsReady ==
    \A j \in JobIds :
        (/\ pc[j] = "done"
         /\ j \notin direct
         /\ path[j] = "miss"
         /\ audio[j] = j
         /\ failure[j].step \notin {"synth", "align"})
        => /\ status[j].state = "READY"
           /\ hist[j] = <<"PENDING", "SYNTHESIZING", "ALIGNING", "READY">>

\* C2: every change of a job's persisted state is an edge of the lifecycle graph
\* (after the record is created in PENDING), so READY and FAILED never change.
C2_ValidWalk ==
    [][\A j \in JobIds :
          status'[j].state # status[j].state
          => \/ status[j] = NoStatus /\ status'[j].state = "PENDING"
             \/ <<status[j].state, status'[j].state>> \in LifecycleEdges]_vars

C2_Witness ==
    \E j \in JobIds :
        hist[j] = <<"PENDING", "SYNTHESIZING", "MASTERING", "ALIGNING", "READY">>

\* C3: run_job never raises to its caller, whatever the persisted status when it
\* is invoked and whichever step fails.
C3_RunJobNeverRaises == \A j \in JobIds : outcome[j] # "raised"

\* what a run that failed at failure[j].step has not done
NoLaterStep(j) ==
    /\ pc[j] = "done"
    /\ failure[j].step \in {"SYNTHESIZING", "prepare", "artifacts", "link"}
          => synthCalls[j] = 0
    /\ failure[j].step \in {"SYNTHESIZING", "prepare", "artifacts", "link",
                            "synth", "ALIGNING"}
          => asrCalls[j] = 0
    /\ \A k \in DOMAIN index : index[k] # j
    /\ \A i \in JobIds : \A k \in DOMAIN snap[i] : snap[i][k] # j

\* C4 as stated: a step raising while the job is non-terminal leaves the job
\* FAILED with error equal to the exception's message, and no later step runs.
C4_FailedWithMessage ==
    \A j \in JobIds :
        failure[j].state \in NonTerminal
        => /\ status[j].state = "FAILED"
           /\ failure[j].after.error = failure[j].message
           /\ NoLaterStep(j)

\* C4 amended: a step raising while the job is non-terminal leaves the job
\* FAILED, with error equal to the exception's message when that message is not
\* empty and error left null when it is empty, and no later step runs.
C4_FailedWithNonEmptyMessage ==
    \A j \in JobIds :
        failure[j].state \in NonTerminal
        => /\ status[j].state = "FAILED"
           /\ status[j] = failure[j].after
           /\ failure[j].after.error =
                 IF failure[j].message = "" THEN NoError ELSE failure[j].message
           /\ NoLaterStep(j)

C4_Witness ==
    \E j \in JobIds :
        /\ failure[j].step = "synth"
        /\ failure[j].message = "TTS model returned no inline audio payload."
        /\ status[j].state = "FAILED"
        /\ status[j].error = failure[j].message
        /\ synthCalls[j] = 1

\* C5: once run_job has started on a job whose status is PENDING, the job
\* eventually reaches READY or FAILED.
C5_RunsToTerminal ==
    \A j \in JobIds :
        (pc[j] = "prepare") ~> (status[j].state \in TERMINAL_STATES)

C5_Witness ==
    \E j \in JobIds :
        /\ pc[j] = "done"
        /\ j \notin direct
        /\ Len(hist[j]) = 3
        /\ hist[j][2] = "SYNTHESIZING"
        /\ status[j].state \in TERMINAL_STATES

\* what is asked of a transition attempt that is not an edge of the lifecycle
\* graph: refused with an invalid-transition error, stored state unchanged
RejectedUnchanged ==
    /\ lastCall'.result = "invalid"
    /\ status'[lastCall'.job].state = status[lastCall'.job].state

\* an observed attempt on an existing record that is not an edge of the graph
OffGraphAttempt ==
    /\ lastCall' # lastCall
    /\ status[lastCall'.job] # NoStatus
    /\ <<status[lastCall'.job].state, lastCall'.dst>> \notin LifecycleEdges

C7_RejectedRefreshesUpdatedAt ==
    [][(lastCall' # lastCall /\ lastCall'.result = "invalid")
       => status'[lastCall'.job].updatedAt = lastCall'.at]_vars

\* C8: every cache index entry names a job whose persisted state is READY; a job
\* that ended FAILED is named by no entry.
C8_IndexNamesReadyJobs ==
    /\ \A k \in DOMAIN index : status[index[k]].state = "READY"
    /\ \A j \in JobIds :
          status[j].state = "FAILED" => \A k \in DOMAIN index : index[k] # j

C8_Witness ==
    \E j \in JobIds :
        /\ status[j].state = "FAILED"
        /\ key[j] \in DOMAIN index
        /\ index[key[j]] # j
        /\ pc[index[key[j]]] = "done"

\* C9: a run that finds a READY origin with its artifacts calls neither the
\* Synthesizer nor the Transcriber and, once the artifacts are linked, has audio
\* and timings in its own directory and a manifest whose URLs carry its own id.
C9_CacheHitReusesArtifacts ==
    \A j \in JobIds :
        path[j] = "hit"
        => /\ synthCalls[j] = 0
           /\ asrCalls[j] = 0
           /\ failure[j].step \notin {"artifacts", "link"}
                 => /\ audio[j] = audio[origin[j]]
                    /\ audio[j] # NoJob
                    /\ timings[j] = timings[origin[j]]
                    /\ timings[j] # NoJob
                    /\ manifest[j].audioUrl = j
                    /\ manifest[j].timingsUrl = j

C9_Witness ==
    \E j \in JobIds :
        /\ path[j] = "hit"
        /\ origin[j] # j
        /\ audio[j] = origin[j]
        /\ timings[j] = origin[j]
        /\ manifest[j].audioUrl = j

\* C10: a job that takes the cache-hit path, with the artifacts linked, ends
\* READY.
C10_CacheHitEndsReady ==
    \A j \in JobIds :
        (/\ path[j] = "hit"
         /\ failure[j].step \notin {"artifacts", "link"}
         /\ j \notin direct
         /\ pc[j] = "done")
        => status[j].state = "READY"

\* C11: when the index names a READY origin whose audio or timings file is
\* missing, the job (driven by run_job alone) ends FAILED, the Synthesizer is
\* never called for it and it writes no index entry.
C11_InconsistencyFails ==
    \A j \in JobIds :
        (path[j] = "inconsistent" /\ j \notin direct)
        => /\ pc[j] = "done"
           /\ status[j].state = "FAILED"
           /\ status[j].error =
                 "Cache inconsistency: READY job " \o origin[j] \o " missing artifacts"
           /\ synthCalls[j] = 0
           /\ asrCalls[j] = 0
           /\ \A k \in DOMAIN index : index[k] # j

C11_Witness ==
    \E j \in JobIds :
        /\ path[j] = "inconsistent"
        /\ j \notin direct
        /\ status[j].state = "FAILED"
        /\ status[origin[j]].state = "READY"
        /\ audio[origin[j]] = NoJob
        /\ index[key[j]] = origin[j]

\* C12 as stated: of two jobs with the same script, roles and model the
\* Synthesizer is called for at most one, however their runs interleave.
C12_AtMostOneSynthesis ==
    \A i, j \in JobIds :
        (i # j /\ request[i].present /\ request[i] = request[j])
        => ~(synthCalls[i] > 0 /\ synthCalls[j] > 0)

\* C12 amended: a run whose cache lookup finds an entry for its key (an
\* identical job reached READY and was recorded before the lookup) never calls
\* the Synthesizer; runs whose lookups both come before the first record may
\* both call it.
C12_RecordedOriginNotResynthesized ==
    \A j \in JobIds : origin[j] # NoJob => synthCalls[j] = 0

C12_Witness ==
    \E i, j \in JobIds :
        /\ origin[j] = i
        /\ request[i] = request[j]
        /\ synthCalls[i] = 1
        /\ synthCalls[j] = 0
        /\ pc[j] = "done"

\* the words of a text: its maximal runs of pieces that are not white space
RECURSIVE WordsFrom(_, _)
WordsFrom(s, word) ==
    IF s = <<>> THEN (IF word = "" THEN <<>> ELSE <<word>>)
    ELSE IF Head(s) \in Whitespace
         THEN (IF word = "" THEN <<>> ELSE <<word>>) \o WordsFrom(Tail(s), "")
    ELSE WordsFrom(Tail(s), word \o Head(s))

Words(s) == WordsFrom(s, "")

\* a text with its white space deleted, letter by letter
Letters(s) == SelectSeq(s, LAMBDA c : c \notin Whitespace)

\* the voice each role of a registry is given, whatever the order of entries
VoiceMap(registry) == {registry[i] : i \in DOMAIN registry}

\* C13: make_cache_key gives equal keys for two inputs with the same model
\* whose scripts are equal once all white space is deleted and whose registries
\* give the same roles the same voices, in whatever order.
C13_KeyIgnoresFormatting ==
    (/\ unit.op = "keys"
     /\ Letters(unit.a.script) = Letters(unit.b.script)
     /\ VoiceMap(unit.a.registry) = VoiceMap(unit.b.registry)
     /\ unit.a.model = unit.b.model)
    => unit.ka = unit.kb

C13_Witness ==
    /\ unit.op = "keys"
    /\ unit.a.script = <<"a", " ", "a">>
    /\ unit.b.script = <<" ", "a", "a">>
    /\ unit.a.registry = <<<<"narrator", "Puck">>, <<"stranger", "Kore">>>>
    /\ unit.b.registry = <<<<"stranger", "Kore">>, <<"narrator", "Puck">>>>
    /\ unit.a.model = unit.b.model
    /\ unit.ka = unit.kb

\* C14 as stated: two inputs that differ in their sequence of words, in the
\* voice of some role or in the model get different keys.
C14_KeySeparatesWording ==
    (/\ unit.op = "keys"
     /\ \/ Words(unit.a.script) # Words(unit.b.script)
        \/ VoiceMap(unit.a.registry) # VoiceMap(unit.b.registry)
        \/ unit.a.model # unit.b.model)
    => unit.ka # unit.kb

\* C14 amended: two inputs that differ in the script's characters other than
\* white space, in the voice of some role or in the model get different keys;
\* scripts that differ only in where the words break share a key.
C14_KeySeparatesContent ==
    (/\ unit.op = "keys"
     /\ \/ Letters(unit.a.script) # Letters(unit.b.script)
        \/ VoiceMap(unit.a.registry) # VoiceMap(unit.b.registry)
        \/ unit.a.model # unit.b.model)
    => unit.ka # unit.kb

C14_Witness ==
    /\ unit.op = "keys"
    /\ unit.a.script = unit.b.script
    /\ unit.a.registry = unit.b.registry
    /\ unit.a.model # unit.b.model
    /\ unit.ka # unit.kb

\* C15: two jobs for which run_job computed the same cache key would send the
\* same input to the Synthesizer, so the audio a cache hit reuses was
\* synthesized from the hitting job's own script.
C15_SameKeySameContent ==
    /\ \A i, j \in JobIds :
          (key[i] # NoKey /\ key[i] = key[j])
          => SynthInput(request[i]) = SynthInput(request[j])
    /\ \A j \in JobIds :
          (path[j] = "hit" /\ audio[j] # NoJob)
          => SynthInput(request[audio[j]]) = SynthInput(request[j])

\* C16: the cache index only grows or overwrites: a key that has an entry has
\* one at every later time, whatever record_origin_job calls for other keys
\* run concurrently.
C16_IndexKeepsEntries ==
    [][\A k \in DOMAIN index : k \in DOMAIN index']_vars

\* C17: whatever save_index calls (two writers at once, a writer dying at any
\* step) and load_index calls interleave, index.json is absent or holds one
\* complete mapping some writer passed to save_index, and no reader finds a
\* truncated file.
C17_IndexFileWhole ==
    unit.op = "index"
    => /\ unit.index # NoInode
             => unit.inodes[unit.index] \in {OldIndex} \cup {IdxOf(w) : w \in Writers}
       /\ unit.seen # Truncated

\* C18: a get_status concurrent with a write of the job's status record finds
\* the whole record as it was before or as it is after, never an empty or
\* partly written file.
C18_ReadSeesWholeRecord ==
    unit.op = "status" => unit.seen.kind \in {"nothing read", "absent", "whole"}

\* C19: for a reference token list of length N and any transcribed words,
\* align_audio returns exactly N entries, entry i (from 0) with idx = i and w
\* the i-th reference token.
C19_OneEntryPerToken ==
    unit.op = "aligned"
    => /\ Len(unit.words) = Len(unit.ref)
       /\ \A i \in DOMAIN unit.words :
             unit.words[i].idx = i - 1 /\ unit.words[i].w = unit.ref[i]

C19_Witness ==
    /\ unit.op = "aligned"
    /\ unit.ref = <<"hello", "there">>
    /\ Len(unit.raw) = 2
    /\ unit.raw[1].word_norm = "there"
    /\ unit.raw[2].word_norm = "there"
    /\ Len(unit.words) = 2
    /\ unit.words[2].idx = 1

\* C20: in every output of align_audio, whatever timestamps the transcriber
\* reports, start does not decrease as idx grows and every entry has
\* end >= start + 1 ms.
C20_TimingsMonotonic ==
    unit.op = "aligned"
    => /\ \A i \in DOMAIN unit.words : unit.words[i].e >= unit.words[i].s + Eps
       /\ \A i, j \in DOMAIN unit.words :
             i < j => unit.words[i].s <= unit.words[j].s

C20_Witness ==
    /\ unit.op = "aligned"
    /\ Len(unit.raw) = 2
    /\ unit.raw[1].start > unit.raw[2].start
    /\ unit.raw[1].end < unit.raw[1].start
    /\ Len(unit.words) = 2
    /\ unit.words[1].s <= unit.words[2].s

\* C21: in every output of align_audio consecutive entries do not overlap:
\* the start of entry i+1 is at least the end of entry i.
C21_NoOverlap ==
    unit.op = "aligned"
    => \A i \in DOMAIN unit.words :
          i + 1 \in DOMAIN unit.words => unit.words[i + 1].s >= unit.words[i].e

\* C22: when the transcriber yields no usable word and the reference has N
\* tokens, align_audio returns N entries, entry i (from 0) spanning
\* [i * 10 ms, (i + 1) * 10 ms], so the spans strictly increase.
C22_SilentFallbackSpans ==
    (unit.op = "aligned" /\ _transcribe_words(unit.raw) = <<>>)
    => /\ Len(unit.words) = Len(unit.ref)
       /\ \A i \in DOMAIN unit.words :
             /\ unit.words[i].s = Ms(10 * (i - 1))
             /\ unit.words[i].e = Ms(10 * i)
       /\ \A i, j \in DOMAIN unit.words :
             i < j => /\ unit.words[i].s < unit.words[j].s
                      /\ unit.words[i].e < unit.words[j].e

C22_Witness ==
    /\ unit.op = "aligned"
    /\ unit.raw = <<>>
    /\ Len(unit.ref) = MaxTokens
    /\ unit.words[MaxTokens].e = Ms(10 * MaxTokens)

\* the audio of the chunks, in ascending chunk index
WavsInIndexOrder == [i \in DOMAIN unit.out |-> WavOf(i - 1, unit.out[i])]

\* C23: the merged audio of synthesize_chunked is the same for every completion
\* order of the chunk tasks: the chunks' audio in ascending chunk index.
C23_MergedInIndexOrder ==
    (unit.op = "chunks" /\ unit.coord = "returned")
    => unit.file = _concat_wavs(WavsInIndexOrder, DefaultSilenceMs)

C23_Witness ==
    /\ unit.op = "chunks"
    /\ unit.coord = "returned"
    /\ Len(unit.results) = MaxChunks
    /\ unit.results[1].index > unit.results[2].index
    /\ unit.file.frames[1] = Run(1, 1)

AllAudio == \A i \in DOMAIN unit.out : unit.out[i].kind = "audio"
Ended == unit.coord \in {"returned", "raised", "handled"}

\* C24: if a chunk's audio differs from the first chunk's in channel count,
\* sample width or frame rate, the merge raises and no merged audio file is
\* written.
C24_MixedFormatsRejected ==
    (/\ unit.op = "chunks"
     /\ AllAudio
     /\ \E i \in DOMAIN unit.out :
           \/ unit.out[i].fmt.ch # unit.out[1].fmt.ch
           \/ unit.out[i].fmt.sw # unit.out[1].fmt.sw
           \/ unit.out[i].fmt.fr # unit.out[1].fmt.fr)
    => /\ unit.file = NoFile
       /\ unit.coord # "returned"
       /\ Ended => unit.err = FormatError

C24_Witness ==
    /\ unit.op = "chunks"
    /\ AllAudio
    /\ \A i \in DOMAIN unit.out : unit.out[i].fmt.ch = unit.out[1].fmt.ch
    /\ \E i \in DOMAIN unit.out : unit.out[i].fmt.fr # unit.out[1].fmt.fr
    /\ unit.coord = "raised"
    /\ unit.err = FormatError
    /\ unit.file = NoFile

\* C25: in chunked mode, if a chunk task fails (a Synthesizer error or no
\* audio), synthesize_chunked raises, no audio file is written for the job
\* (never one merged from some of the chunks), and the job ends FAILED.
C25_ChunkFailureFailsJob ==
    (unit.op = "chunks" /\ ~AllAudio)
    => /\ unit.file = NoFile
       /\ unit.coord \notin {"merging", "returned"}
       /\ unit.coord = "handled" => unit.status.state = "FAILED"

C25_Witness ==
    /\ unit.op = "chunks"
    /\ unit.coord = "handled"
    /\ unit.results # <<>>
    /\ \E i \in DOMAIN unit.out : unit.out[i].kind = "empty"
    /\ unit.file = NoFile
    /\ unit.status.state = "FAILED"

\* C30: synthesize_chunked neither starts merging nor returns nor raises while
\* a chunk task is still queued or running, on success and on failure alike.
C30_WaitsForEveryTask ==
    (unit.op = "chunks" /\ unit.coord \in {"merging", "returned", "raised", "handled"})
    => \A i \in DOMAIN unit.task : unit.task[i] \in Finished

C30_Witness ==
    /\ unit.op = "chunks"
    /\ unit.coord = "raised"
    /\ unit.seen # DOMAIN unit.task
    /\ \A i \in DOMAIN unit.task : unit.task[i] \in Finished

\* C26: a request whose script has no SCRIPT: section (like one with no role
\* or an oversized script) is rejected before a status record is created for
\* it, and its validation error never becomes a job's persisted error.
C26_MalformedNeverReachesJobState ==
    \A j \in JobIds :
       /\ (request[j].present /\ ~HasScriptSection(request[j].script))
          => status[j] = NoStatus
       /\ status[j].error # "SCRIPT: section is required"

\* C27: after create_job(body) returns, whatever the logging level, the job's
\* request record holds body.script and body.roles (what run_job reads back).
C27_RequestPersisted ==
    [][\A body \in Bodies :
          create_job(body) => request'[uuid4] = RequestOf(body)]_vars

\* run_job itself wrote READY for job j and returned or is about to
ReadyByRunJob(j) ==
    /\ status[j].state = "READY"
    /\ pc[j] \in {"record", "save", "done"}
    /\ outcome[j] # "raised"

\* C28: whenever run_job has brought a job to READY, the job's audio, timings
\* and manifest all exist in its directory.
C28_ReadyHasArtifacts ==
    \A j \in JobIds :
       ReadyByRunJob(j)
       => /\ audio[j] # NoJob
          /\ timings[j] # NoJob
          /\ manifest[j] # NoManifest

C28_Witness ==
    \E j \in JobIds :
       /\ ReadyByRunJob(j)
       /\ path[j] = "miss"
       /\ pc[j] = "record"
       /\ manifest[j] # NoManifest
       /\ audio[j] = j

\* the file is missing, is not JSON, is not a JSON object, or holds under k
\* something that is not an entry with a job_id
NotAnIndexFor(file, k) ==
    \/ file.kind # "json"
    \/ file.value.type # "object"
    \/ /\ k \in DOMAIN file.value.members
       /\ \/ file.value.members[k].type # "object"
          \/ file.value.members[k].job_id = NoJob

\* C29: lookup_origin_job never raises, and returns None whenever the index
\* file is missing or malformed (not JSON, or not a mapping from key to an
\* entry holding job_id).
C29_LookupToleratesMalformed ==
    unit.op = "looked up"
    => /\ ~unit.result.raised
       /\ NotAnIndexFor(unit.file, unit.k) => unit.result.value = NoJob

RECURSIVE Flatten(_)
Flatten(seqs) == IF seqs = <<>> THEN <<>> ELSE Head(seqs) \o Flatten(Tail(seqs))

\* C31: _group_lines_into_chunks partitions losslessly and in order: the
\* returned chunks, concatenated, are exactly the formatted lines in script
\* order, and no returned chunk is empty.
C31_ChunksPartitionLines ==
    unit.op = "grouped"
    => /\ Len(Flatten(unit.chunks)) = Len(unit.lines)
       /\ \A i \in DOMAIN unit.lines :
             Flatten(unit.chunks)[i] = "[narrator] line " \o ToString(i)
       /\ \A k \in DOMAIN unit.chunks : unit.chunks[k] # <<>>

C31_Witness ==
    /\ unit.op = "grouped"
    /\ unit.lines_per_chunk = 4
    /\ Len(unit.lines) = 9
    /\ Len(unit.chunks) = 2
    /\ Len(unit.chunks[2]) = 5

\* C32 as stated: every chunk returned by _group_lines_into_chunks has at most
\* lines_per_chunk lines.
C32_ChunksBounded ==
    unit.op = "grouped"
    => \A k \in DOMAIN unit.chunks : Len(unit.chunks[k]) <= unit.lines_per_chunk

\* C32 amended: every returned chunk but the last has exactly lines_per_chunk
\* lines; the last exceeds lines_per_chunk by less than half of
\* lines_per_chunk.
C32_ChunksBoundedButLast ==
    unit.op = "grouped"
    => /\ \A k \in DOMAIN unit.chunks :
             k < Len(unit.chunks) => Len(unit.chunks[k]) = unit.lines_per_chunk
       /\ \A k \in DOMAIN unit.chunks :
             \/ Len(unit.chunks[k]) <= unit.lines_per_chunk
             \/ /\ k = Len(unit.chunks)
                /\ 2 * (Len(unit.chunks[k]) - unit.lines_per_chunk) < unit.lines_per_chunk

C32_Witness ==
    /\ unit.op = "grouped"
    /\ unit.lines_per_chunk = 4
    /\ Len(unit.lines) = 9
    /\ Len(unit.chunks[1]) = 4
    /\ Len(unit.chunks[Len(unit.chunks)]) > 4

\* C33: when _group_lines_into_chunks returns two or more chunks, the last one
\* is not smaller than half the target size: 2 * len(last) >= lines_per_chunk.
C33_NoSmallTail ==
    (unit.op = "grouped" /\ Len(unit.chunks) >= 2)
    => 2 * Len(unit.chunks[Len(unit.chunks)]) >= unit.lines_per_chunk

RECURSIVE FrameCount(_)
FrameCount(frames) ==
    IF frames = <<>> THEN 0 ELSE Head(frames).n + FrameCount(Tail(frames))

\* C34: for n >= 1 chunks of one format, the merged audio is the chunks' frames
\* in order with exactly floor(frame_rate * silence_ms / 1000) zero frames
\* between consecutive chunks and none before the first or after the last.
C34_SilenceBetweenChunks ==
    unit.op = "merged"
    => LET out == unit.merged.frames
           n == Len(unit.wavs)
           product == unit.wavs[1].fmt.fr * unit.silence_ms
           gap == IF Len(out) > n THEN out[2].n ELSE 0
       IN  /\ n >= 2 => (gap * 1000 <= product /\ product < (gap + 1) * 1000)
           /\ IF gap = 0
              THEN out = [k \in 1..n |-> unit.wavs[k].frames[1]]
              ELSE /\ Len(out) = 2 * n - 1
                   /\ \A k \in 1..n : out[2 * k - 1] = unit.wavs[k].frames[1]
                   /\ \A k \in 1..(n - 1) : out[2 * k] = Run(0, gap)
           /\ FrameCount(out)
                 = FrameCount([k \in 1..n |-> unit.wavs[k].frames[1]]) + (n - 1) * gap

C34_Witness ==
    /\ unit.op = "merged"
    /\ Len(unit.wavs) = MaxChunks
    /\ unit.wavs[1].fmt.fr = 44100
    /\ unit.silence_ms = 1
    /\ unit.merged.frames[2] = Run(0, 44)
    /\ Len(unit.merged.frames) = 2 * MaxChunks - 1

Transcribed == \E i \in DOMAIN unit.steps : unit.steps[i] = "transcribe"

\* C35 as stated: when the reference text yields no tokens align_audio returns
\* an empty word list without invoking the Transcriber; when the audio file is
\* missing it raises before tokenizing or transcribing.
C35_EmptyTextReturnsEmpty ==
    unit.op \in {"aligned", "raised"}
    => /\ unit.ref = <<>>
          => (unit.op = "aligned" /\ unit.words = <<>> /\ ~Transcribed)
       /\ ~unit.audio => (unit.op = "raised" /\ unit.steps = <<"exists">>)

\* C35 amended: the empty word list is returned when the audio file exists and
\* the text yields no tokens; a missing audio file raises first, whatever the
\* text.
C35_EmptyTextReturnsEmptyIfAudio ==
    unit.op \in {"aligned", "raised"}
    => /\ (unit.audio /\ unit.ref = <<>>)
          => (unit.op = "aligned" /\ unit.words = <<>> /\ ~Transcribed)
       /\ ~unit.audio => (unit.op = "raised" /\ unit.steps = <<"exists">>)

C35_Witness ==
    /\ unit.op = "aligned"
    /\ unit.audio
    /\ unit.ref = <<>>
    /\ unit.raw # <<>>
    /\ unit.words = <<>>
    /\ unit.steps = <<"exists", "tokenize">>

\* the calls of the fallback chain up to and including the first that succeeds
RECURSIVE UpToFirstSuccess(_, _)
UpToFirstSuccess(chain, fails) ==
    IF chain = <<>> THEN <<>>
    ELSE IF Head(chain) \in fails
         THEN <<Head(chain)>> \o UpToFirstSuccess(Tail(chain), fails)
    ELSE <<Head(chain)>>

\* C36: _link_or_copy(src, dst) leaves dst untouched and attempts nothing when
\* dst exists; otherwise it tries hard link, symbolic link, byte copy in that
\* order, stops at the first that succeeds, and raises only if all three fail.
C36_LinkThenSymlinkThenCopy ==
    (unit.op = "link" /\ unit.pc = "done")
    => /\ unit.before # NoEntry
          => (unit.tried = <<>> /\ unit.dst = unit.before /\ unit.result = "returned")
       /\ unit.before = NoEntry
          => /\ unit.tried = UpToFirstSuccess(<<"link", "symlink", "copy">>, unit.fails)
             /\ (unit.result = "raised")
                   = ({"link", "symlink", "copy"} \subseteq unit.fails)
             /\ unit.result = "returned" => unit.dst.content = unit.src

C36_Witness ==
    /\ unit.op = "link"
    /\ unit.pc = "done"
    /\ unit.tried = <<"link", "symlink">>
    /\ unit.dst = Entry("symlink", "origin audio")

\* C37: after any run of run_job, on the hit or the miss path, a job whose
\* persisted state is FAILED has no manifest: a manifest exists only for a job
\* that is ALIGNING or READY.  (Jobs whose status only run_job has written.)
C37_FailedHasNoManifest ==
    \A j \in JobIds :
       (pc[j] = "done" /\ j \notin direct /\ manifest[j] # NoManifest)
       => status[j].state \in {"ALIGNING", "READY"}

\* C38: every _transition call, accepted or rejected, leaves the job's id and
\* createdAt unchanged, never deletes the status record and never decreases
\* updatedAt; a job is created PENDING with error null and createdAt =
\* updatedAt.
C38_StatusFrame ==
    [][\A j \in JobIds :
          IF status[j] = NoStatus
          THEN status'[j] # NoStatus
               => /\ status'[j].id = j
                  /\ status'[j].state = "PENDING"
                  /\ status'[j].error = NoError
                  /\ status'[j].createdAt = status'[j].updatedAt
          ELSE /\ status'[j] # NoStatus
               /\ status'[j].id = status[j].id
               /\ status'[j].createdAt = status[j].createdAt
               /\ status'[j].updatedAt >= status[j].updatedAt]_vars

C38_Witness ==
    /\ lastCall.result = "invalid"
    /\ lastCall.error = "cancelled"
    /\ status[JobSeq[1]].createdAt = 0
    /\ status[JobSeq[1]].updatedAt = MaxClock
    /\ status[JobSeq[1]].error = "cancelled"

====
